---- MODULE Spec2Model ----
(***************************************************************************)
(* Session lifecycle of the matchdb shell: the Redux auth slice            *)
(* (store/authSlice.ts), its localStorage persistence, the token           *)
(* verification effect of JobsAppWrapper, the OAuth callback page and the   *)
(* sign-out handler of ShellLayout.                                         *)
(*                                                                         *)
(* JavaScript values are modelled as follows.  A token string is a record  *)
(* [kind, sub, jti]; null/undefined and the empty string are the records   *)
(* Null and EmptyStr of the same shape.  A user record is a record with     *)
(* the fields the shell reads; NoUser stands for null.  A JSON text is a    *)
(* sequence of strings (its lexical tokens); NoItem is a missing key.       *)
(* The identity server is the environment: its answers are chosen           *)
(* nondeterministically among the answers its interface allows.             *)
(***************************************************************************)
EXTENDS Integers, Sequences, FiniteSets, Bags, TLC

\* ---------------------------------------------------------------- bounds
MaxSerial == 2          \* access tokens the server mints in the course of one session
MaxInFlight == 1        \* thunk requests (login, register, ...) pending at once

\* ------------------------------------------------------------- JS values
Null == [kind |-> "null", sub |-> "", jti |-> 0]
EmptyStr == [kind |-> "empty", sub |-> "", jti |-> 0]

Truthy(v) == v # Null /\ v # EmptyStr

OrElse(v, d) == IF Truthy(v) THEN v ELSE d

Accounts == {"u1", "u2"}

RoleOf(a) == IF a = "u1" THEN "candidate" ELSE "vendor"

AccessToken(a, n) == [kind |-> "access", sub |-> a, jti |-> n]

RefreshToken(a) == [kind |-> "refresh", sub |-> a, jti |-> 1]

\* a session starts with the access token of serial 1; every refresh mints
\* a token of a later serial
RefreshedTokens == {AccessToken(a, n) : a \in Accounts, n \in 2..MaxSerial}

Plans == {"free", "pro"}

NoUser == [id |-> "", user_type |-> "", plan |-> "", has_purchased_visibility |-> FALSE]

User(a, p, v) == [id |-> a, user_type |-> RoleOf(a), plan |-> p, has_purchased_visibility |-> v]

\* the records the server holds for an account: a candidate is on the free
\* plan with or without a visibility purchase, a vendor is free or paid
ServerUsers(a) ==
  IF RoleOf(a) = "candidate"
  THEN {User(a, "free", FALSE), User(a, "free", TRUE)}
  ELSE {User(a, "free", FALSE), User(a, "pro", FALSE)}

NullStr == "<null>"

\* ------------------------------------------------------------------ JSON
NoItem == <<>>

BoolText(b) == IF b THEN "true" ELSE "false"

Stringify(u) ==
  IF u = NoUser THEN <<"null">>
  ELSE <<"{", u.id, u.user_type, u.plan, BoolText(u.has_purchased_visibility), "}">>

ParseOK(s) ==
  \/ s = <<"null">>
  \/ /\ Len(s) = 6
     /\ s[1] = "{"
     /\ s[6] = "}"
     /\ s[5] \in {"true", "false"}

Parse(s) ==
  IF s = <<"null">> THEN NoUser
  ELSE [id |-> s[2], user_type |-> s[3], plan |-> s[4],
        has_purchased_visibility |-> (s[5] = "true")]

\* ----------------------------------------------------------------- state
VARIABLES
  auth,        \* Redux auth slice: user, token, refresh, loading, error, sessionExpiredUserType
  ls,          \* localStorage: matchdb_token, matchdb_refresh, matchdb_user
  pending,     \* bag of thunk requests in flight
  wrapper,     \* the mounted JobsAppWrapper instance: verifyRan ref and effect bookkeeping
  verifier,    \* the verifyToken coroutine started by a JobsAppWrapper instance
  location,    \* window.location: path and query
  ended,       \* history: how the last session ended, "none" once a session is established
  modal,       \* LoginModal: open, showUpgrade, mode, context, oauthError
  shell,       \* ShellLayout: plan-purchase modal, its tab, the chain flag, pending timers,
               \* and the PricingPage it shows: activeTab, message
  published,   \* the window messages the last step has published, in order
  urlReads,    \* history: runs of the payment-redirect effect of the mounted ShellLayout
  quiet,       \* scenario: no message is published to the modals any more and the
               \* user does nothing but close what is open
  app,         \* the React tree of App: whether it is mounted and which instance it is
  listeners    \* the listener list of window: type, owning component and its instance

\* the view state of the modals; it never acts on the session
ui == <<modal, shell, published, urlReads, quiet, app, listeners>>

vars == <<auth, ls, pending, wrapper, verifier, location, ended, modal, shell, published,
          urlReads, quiet, app, listeners>>

\* ------------------------------------------------------------ localStorage
EmptyStorage == [matchdb_token |-> Null, matchdb_refresh |-> Null, matchdb_user |-> NoItem]

\* authSlice.ts:33-43
initialState(store) ==
  [user |-> IF store.matchdb_user # NoItem THEN Parse(store.matchdb_user) ELSE NoUser,
   token |-> OrElse(store.matchdb_token, Null),
   refresh |-> OrElse(store.matchdb_refresh, Null),
   loading |-> FALSE,
   error |-> NullStr,
   sessionExpiredUserType |-> NullStr]

\* --------------------------------------------------------------- location
\* window.location: the path, the oauth_error parameter of the query and
\* the payment marker of the query that is set to "true"
Url(p) == [path |-> p, oauth_error |-> NullStr, payment |-> NullStr]

LoginUrl(err) == [path |-> "/login", oauth_error |-> err, payment |-> NullStr]

\* part_000:285-287
PaymentMarkers == {"success", "candidate_success", "canceled"}

\* part_000:282: the page the payment provider sends the browser back to
PaymentUrl(marker) == [path |-> "/", oauth_error |-> NullStr, payment |-> marker]

\* the query the backend puts on its redirect to /oauth-callback: one query
\* with an error, the queries that lack the token or the user payload, a
\* user payload that does not parse, and complete payloads with and
\* without a refresh token, whose user payload is a record or the JSON null
OAuthQuery(t, r, u) == [token |-> t, refresh |-> r, user |-> u, oauth_error |-> NullStr]

OAuthQueries ==
  {[token |-> Null, refresh |-> Null, user |-> NoItem, oauth_error |-> "access_denied"],
   OAuthQuery(Null, RefreshToken("u2"), Stringify(User("u2", "free", FALSE))),
   OAuthQuery(AccessToken("u2", 1), RefreshToken("u2"), NoItem),
   OAuthQuery(AccessToken("u2", 1), RefreshToken("u2"), <<"{", "u2">>)}
  \cup {OAuthQuery(AccessToken("u2", 1), r, u) :
          r \in {Null, RefreshToken("u2")},
          u \in {Stringify(User("u2", "free", FALSE)), <<"null">>}}

\* ---------------------------------------------------------------- modals
\* App.tsx:499-505: the state of a LoginModal that has just mounted
NoModal == [open |-> FALSE, showUpgrade |-> FALSE, mode |-> "login",
            context |-> "candidate", oauthError |-> NullStr]

\* part_000:246-254: the state of a ShellLayout that has just mounted;
\* timers counts the pending timeouts of handleClosePricing; activeTab and
\* message are the state of the PricingPage in the plan-purchase modal
\* (part_004:402, 419-422), at their defaults while it is not mounted
NoShell == [pricingModalOpen |-> FALSE, pricingModalTab |-> "vendor",
            pendingProfileOpen |-> FALSE, timers |-> 0,
            activeTab |-> 0, message |-> NullStr, subNavGroups |-> <<>>]

\* the message types LoginModal (App.tsx:539-542) and ShellLayout
\* (part_000:276-280, 318-331, 461-476) listen to
OwnerOf(type) == IF type = "matchdb:openLogin" THEN "LoginModal" ELSE "ShellLayout"

ListenedTypes ==
  {"matchdb:openLogin", "matchdb:openPricing", "matchdb:subnav", "matchdb:breadcrumb",
   "matchdb:footerInfo", "matchdb:profileLocation", "matchdb:visibleIn"}

\* a registration: addEventListener(type, handler), the handler being a
\* function of instance inst of the owning component; the callbacks the
\* effects depend on are memoised with dependencies that never change
\* (App.tsx:525-537, part_000:256-262, 308-316), so one instance registers
\* the same functions whenever its effects run
Registration(type, inst) == [type |-> type, owner |-> OwnerOf(type), inst |-> inst]

\* the effects that register the listeners of instance inst run on the
\* listener list l; window keeps one entry per type and function
subscribe(l, inst) == l \cup {Registration(t, inst) : t \in ListenedTypes}

unsubscribe_Forgets(l, inst) == l

\* the cleanups of those effects: removeEventListener with the same functions
unsubscribe(l, inst) == l \ {Registration(t, inst) : t \in ListenedTypes}

\* a handler for the message type is registered
Registered(type) == \E l \in listeners : l.type = type

\* a window message: its type and the fields of its detail the shell reads
Message(type, tab, triggerProfile) ==
  [type |-> type, tab |-> tab, triggerProfile |-> triggerProfile]

\* App.tsx:513-517
OAuthErrorText(msg) ==
  IF msg = "missing_data" \/ msg = "parse_error"
  THEN "Google sign-in failed. Please try again."
  ELSE "Google sign-in failed: " \o msg

loginModalMount_KeepsQuery(loc) ==
  IF loc.oauth_error # NullStr
  THEN [modal |-> [NoModal EXCEPT !.oauthError = OAuthErrorText(loc.oauth_error),
                                  !.open = TRUE],
        location |-> loc]
  ELSE [modal |-> NoModal, location |-> loc]

\* App.tsx:508-523: the mount effect of LoginModal on the location loc; the
\* result is the state of the modal and the location it leaves
loginModalMount(loc) ==
  IF loc.oauth_error # NullStr
  THEN [modal |-> [NoModal EXCEPT !.oauthError = OAuthErrorText(loc.oauth_error),
                                  !.open = TRUE],
        location |-> Url(loc.path)]
  ELSE [modal |-> NoModal, location |-> loc]

\* README.md:84-88 lists /oauth-callback as a route of its own and the
\* routing table is not part of the sources: a navigation away from the
\* callback page mounts the application shell (App.tsx:40-59), and with it
\* LoginModal, on the location loc.
ShellMount(loc) == loginModalMount(loc)

\* ------------------------------------------------------------ JobsAppWrapper
NoProps == [token |-> Null, userType |-> "", userId |-> "", plan |-> "",
            hasPurchasedVisibility |-> FALSE]

\* JobsAppWrapper.tsx:112-121: the props of JobsApp in a render with the
\* slice state a; an absent user gives undefined, written "" as in NoUser
JobsAppProps(a) ==
  [token |-> a.token,
   userType |-> IF a.user = NoUser THEN "" ELSE a.user.user_type,
   userId |-> IF a.user = NoUser THEN "" ELSE a.user.id,
   plan |-> IF a.user = NoUser THEN "" ELSE a.user.plan,
   hasPurchasedVisibility |-> IF a.user = NoUser THEN FALSE
                              ELSE a.user.has_purchased_visibility]

\* JobsAppWrapper.tsx:18-21: hasError is the state of its ErrorBoundary;
\* props are the props last handed to the hosted module
NoWrapper == [mounted |-> FALSE, verifyRan |-> FALSE, hasError |-> FALSE, props |-> NoProps]

renderWrapper_Once(w, a) ==
  [w EXCEPT !.props = IF w.mounted /\ ~w.hasError
                      THEN IF w.props = NoProps THEN JobsAppProps(a) ELSE w.props
                      ELSE NoProps]

\* JobsAppWrapper.tsx:26-46, 109-124: the render of the wrapper w with the
\* slice state a; the boundary shows its panel instead of the module once
\* it has caught an error
renderWrapper(w, a) ==
  [w EXCEPT !.props = IF w.mounted /\ ~w.hasError THEN JobsAppProps(a) ELSE NoProps]

\* refresh and user_type are the values the closure of the coroutine reads
\* after the first await; verifySent and refreshSent count its requests
NoVerifier == [pc |-> "none", refresh |-> Null, user_type |-> NullStr,
               verifySent |-> 0, refreshSent |-> 0]

\* ------------------------------------------------- authSlice: reducers
\* A reducer maps the slice state and localStorage, st = [auth, ls], to
\* their values after the reducer has run.
setItem(store, key, value) == [store EXCEPT ![key] = value]

removeItem(store, key) ==
  [store EXCEPT ![key] = IF key = "matchdb_user" THEN NoItem ELSE Null]

removeSession(store) ==
  removeItem(removeItem(removeItem(store, "matchdb_token"), "matchdb_refresh"), "matchdb_user")

logout_KeepsRefresh(st) ==
  [auth |-> [st.auth EXCEPT !.user = NoUser, !.token = Null, !.refresh = Null,
                            !.sessionExpiredUserType = NullStr],
   ls |-> removeItem(removeItem(st.ls, "matchdb_token"), "matchdb_user")]

\* authSlice.ts:158-166
logout(st) ==
  [auth |-> [st.auth EXCEPT !.user = NoUser, !.token = Null, !.refresh = Null,
                            !.sessionExpiredUserType = NullStr],
   ls |-> removeSession(st.ls)]

\* authSlice.ts:171-179
expireSession(st, role) ==
  [auth |-> [st.auth EXCEPT !.sessionExpiredUserType = role,
                            !.user = NoUser, !.token = Null, !.refresh = Null],
   ls |-> removeSession(st.ls)]

\* authSlice.ts:180-182
clearError(st) == [auth |-> [st.auth EXCEPT !.error = NullStr], ls |-> st.ls]

updatePlan_MemoryOnly(st, plan) ==
  IF st.auth.user # NoUser
  THEN [auth |-> [st.auth EXCEPT !.user = [st.auth.user EXCEPT !.plan = plan]], ls |-> st.ls]
  ELSE st

\* authSlice.ts:183-188
updatePlan(st, plan) ==
  IF st.auth.user # NoUser
  THEN LET u == [st.auth.user EXCEPT !.plan = plan]
       IN [auth |-> [st.auth EXCEPT !.user = u],
           ls |-> setItem(st.ls, "matchdb_user", Stringify(u))]
  ELSE st

\* authSlice.ts:193-204
setAuthFromOAuth(st, p) ==
  [auth |-> [st.auth EXCEPT !.user = p.user, !.token = p.access, !.refresh = p.refresh,
                            !.error = NullStr],
   ls |-> setItem(setItem(setItem(st.ls, "matchdb_token", p.access),
                          "matchdb_refresh", p.refresh),
                  "matchdb_user", Stringify(p.user))]

\* authSlice.ts:209-212, 230-233, 261-264
thunk_pending(st) ==
  [auth |-> [st.auth EXCEPT !.loading = TRUE, !.error = NullStr], ls |-> st.ls]

login_fulfilled_SkipsRefresh(st, p) ==
  [auth |-> [st.auth EXCEPT !.loading = FALSE, !.user = p.user, !.token = p.access,
                            !.refresh = p.refresh],
   ls |-> setItem(setItem(st.ls, "matchdb_token", p.access),
                  "matchdb_user", Stringify(p.user))]

\* authSlice.ts:213-224
login_fulfilled(st, p) ==
  [auth |-> [st.auth EXCEPT !.loading = FALSE, !.user = p.user, !.token = p.access,
                            !.refresh = p.refresh],
   ls |-> setItem(setItem(setItem(st.ls, "matchdb_token", p.access),
                          "matchdb_refresh", p.refresh),
                  "matchdb_user", Stringify(p.user))]

login_rejected_DropsSession(st, msg) ==
  [auth |-> [st.auth EXCEPT !.loading = FALSE, !.error = msg, !.user = NoUser,
                            !.token = Null],
   ls |-> st.ls]

\* authSlice.ts:225-228
login_rejected(st, msg) ==
  [auth |-> [st.auth EXCEPT !.loading = FALSE, !.error = msg], ls |-> st.ls]

\* authSlice.ts:234-245
register_fulfilled(st, p) ==
  [auth |-> [st.auth EXCEPT !.loading = FALSE, !.user = p.user, !.token = p.access,
                            !.refresh = p.refresh],
   ls |-> setItem(setItem(setItem(st.ls, "matchdb_token", p.access),
                          "matchdb_refresh", p.refresh),
                  "matchdb_user", Stringify(p.user))]

\* authSlice.ts:246-249
register_rejected(st, msg) ==
  [auth |-> [st.auth EXCEPT !.loading = FALSE, !.error = msg], ls |-> st.ls]

refreshUserData_fulfilled_KeepsPlan(st, user) ==
  LET u == [user EXCEPT !.plan = st.auth.user.plan]
  IN [auth |-> [st.auth EXCEPT !.user = u],
      ls |-> setItem(st.ls, "matchdb_user", Stringify(u))]

\* authSlice.ts:251-254
refreshUserData_fulfilled(st, user) ==
  [auth |-> [st.auth EXCEPT !.user = user],
   ls |-> setItem(st.ls, "matchdb_user", Stringify(user))]

refreshAuthToken_fulfilled_MemoryOnly(st, access) ==
  [auth |-> [st.auth EXCEPT !.token = access], ls |-> st.ls]

\* authSlice.ts:256-259
refreshAuthToken_fulfilled(st, access) ==
  [auth |-> [st.auth EXCEPT !.token = access],
   ls |-> setItem(st.ls, "matchdb_token", access)]

deleteAccount_fulfilled_KeepsUserKey(st) ==
  [auth |-> [st.auth EXCEPT !.loading = FALSE, !.user = NoUser, !.token = Null,
                            !.refresh = Null],
   ls |-> removeItem(removeItem(st.ls, "matchdb_token"), "matchdb_refresh")]

\* authSlice.ts:265-273
deleteAccount_fulfilled(st) ==
  [auth |-> [st.auth EXCEPT !.loading = FALSE, !.user = NoUser, !.token = Null,
                            !.refresh = Null],
   ls |-> removeSession(st.ls)]

\* authSlice.ts:274-277
deleteAccount_rejected(st, msg) ==
  [auth |-> [st.auth EXCEPT !.loading = FALSE, !.error = msg], ls |-> st.ls]

\* ------------------------------------------------------------- the server
\* HTTP statuses of a failed request; NoResponse is a network error or a
\* timeout (axios sets no err.response), ProxyUnavailable the proxy's answer
\* when the auth service cannot be reached.
NoResponse == 0

ProxyUnavailable == 502

FailureStatuses == {401, 403, ProxyUnavailable, NoResponse}

SessionPayloads ==
  {[user |-> u, access |-> AccessToken(a, 1), refresh |-> RefreshToken(a)] :
     a \in Accounts, u \in UNION {ServerUsers(b) : b \in Accounts}}

\* login: the session of an existing account
LoginPayloads == {p \in SessionPayloads : p.user \in ServerUsers(p.access.sub)}

\* register: a new account, on the free tier and without a visibility grant
RegisterPayloads == {p \in SessionPayloads : p.user = User(p.access.sub, "free", FALSE)}

\* a request in flight: its kind and, where the answer depends on it, the
\* account of the access token it carries
Request(kind, sub) == [kind |-> kind, sub |-> sub]

Send(req) == pending' = pending (+) SetToBag({req})

Receive(req) == pending' = pending (-) SetToBag({req})

InFlight == BagCardinality(pending)

\* ------------------------------------------- JobsAppWrapper: verification
VerifyRanGuard_Off(w) == FALSE

\* JobsAppWrapper.tsx:65
VerifyRanGuard(w) == w.verifyRan

IsAuthError_AnyFailure(status) == status # 200

\* JobsAppWrapper.tsx:77
IsAuthError(status) == status = 401 \/ status = 403

\* JobsAppWrapper.tsx:89
ExpiredType(user_type) == IF user_type = NullStr THEN "candidate" ELSE user_type

\* JobsAppWrapper.tsx:92-97
ExpiredRedirect(expiredType) ==
  IF expiredType = "vendor" THEN "/jobs/vendor" ELSE "/jobs/candidate"

\* verify requests of one instance the model counts
MaxSent == 2

verifyEffect_GuardWithoutToken(w, v, a) ==
  IF VerifyRanGuard(w)
  THEN [w |-> w, v |-> v]
  ELSE IF ~Truthy(a.token)
  THEN [w |-> [w EXCEPT !.verifyRan = TRUE], v |-> v]
  ELSE [w |-> [w EXCEPT !.verifyRan = TRUE],
        v |-> [pc |-> "verify", refresh |-> a.refresh,
               user_type |-> IF a.user = NoUser THEN NullStr ELSE a.user.user_type,
               verifySent |-> IF v.verifySent < MaxSent THEN v.verifySent + 1 ELSE v.verifySent,
               refreshSent |-> v.refreshSent]]

\* JobsAppWrapper.tsx:61-72, 103-104: one run of the effect of instance w
\* with coroutine slot v, in a render that shows the slice state a.
\* verifyToken runs up to its first await: the verify request is sent with
\* the token, refresh token and user of that render.
verifyEffect(w, v, a) ==
  IF ~Truthy(a.token) \/ VerifyRanGuard(w)
  THEN [w |-> w, v |-> v]
  ELSE [w |-> [w EXCEPT !.verifyRan = TRUE],
        v |-> [pc |-> "verify", refresh |-> a.refresh,
               user_type |-> IF a.user = NoUser THEN NullStr ELSE a.user.user_type,
               verifySent |-> IF v.verifySent < MaxSent THEN v.verifySent + 1 ELSE v.verifySent,
               refreshSent |-> v.refreshSent]]

\* ------------------------------------------------------ store and render
St == [auth |-> auth, ls |-> ls]

\* A dispatched action runs its reducer; the components that select from
\* the slice re-render at once, and the effect of the mounted
\* JobsAppWrapper runs again when token has changed (JobsAppWrapper.tsx:104).
\* v is the coroutine as the dispatching handler leaves it.
DispatchWith(r, v) ==
  /\ auth' = r.auth
  /\ ls' = r.ls
  /\ IF wrapper.mounted /\ r.auth.token # auth.token
     THEN LET e == verifyEffect(wrapper, v, r.auth)
          IN /\ wrapper' = renderWrapper(e.w, r.auth)
             /\ verifier' = e.v
     ELSE /\ wrapper' = renderWrapper(wrapper, r.auth)
          /\ verifier' = v

Dispatch(r) == DispatchWith(r, verifier)

\* ------------------------------------------------------------------- Init
Init ==
  /\ ls = EmptyStorage
  /\ auth = initialState(EmptyStorage)
  /\ pending = EmptyBag
  /\ wrapper = NoWrapper
  /\ verifier = NoVerifier
  /\ location = Url("/")
  /\ ended = "none"
  /\ modal = NoModal
  /\ shell = NoShell
  /\ published = <<>>
  /\ urlReads = 1
  /\ quiet = FALSE
  /\ app = [mounted |-> TRUE, inst |-> 1]
  /\ listeners = subscribe({}, 1)

\* A full page load: the store is rebuilt from localStorage and every
\* in-memory object of the old page, pending requests included, is gone.
LoadPage ==
  /\ auth' = initialState(ls)
  /\ pending' = EmptyBag
  /\ wrapper' = NoWrapper
  /\ verifier' = NoVerifier
  /\ location' = Url("/")
  /\ UNCHANGED <<ls, ended>>

\* ----------------------------------------------------- OAuthCallbackPage
\* OAuthCallbackPage.tsx:18-44: what the mount effect of the page does with
\* the query q of the redirect; the result is the session and the location
oauthCallback(st, q) ==
  IF q.oauth_error # NullStr
  THEN [st |-> st, to |-> LoginUrl(q.oauth_error), ok |-> FALSE]
  ELSE IF ~Truthy(q.token) \/ q.user = NoItem
  THEN [st |-> st, to |-> LoginUrl("missing_data"), ok |-> FALSE]
  ELSE IF ParseOK(q.user)
  THEN [st |-> setAuthFromOAuth(st, [user |-> Parse(q.user), access |-> q.token,
                                     refresh |-> OrElse(q.refresh, EmptyStr)]),
        to |-> Url("/"), ok |-> TRUE]
  ELSE [st |-> st, to |-> LoginUrl("parse_error"), ok |-> FALSE]

\* The backend redirects the browser to /oauth-callback: a full page load,
\* followed at once by the mount effect of OAuthCallbackPage; its navigate
\* leaves the callback route, the application shell mounts and the mount
\* effect of LoginModal reads the location.
OAuthLanding(q) ==
  LET loaded == [auth |-> initialState(ls), ls |-> ls]
      r == oauthCallback(loaded, q)
  IN /\ auth' = r.st.auth
     /\ ls' = r.st.ls
     /\ location' = ShellMount(r.to).location
     /\ ended' = IF r.ok THEN "none" ELSE ended
     /\ pending' = EmptyBag
     /\ wrapper' = NoWrapper
     /\ verifier' = NoVerifier

\* ------------------------------------------------- LoginModal: submit
ErrorMessages == {"Invalid credentials"}

\* App.tsx:596-599; the submit button is disabled while loading (App.tsx:788)
\* and the form is on screen only without a token: the post-auth effect
\* closes it or replaces it by the upgrade prompt (App.tsx:545-568)
handleLoginSubmit ==
  /\ ~Truthy(auth.token)
  /\ ~auth.loading
  /\ InFlight < MaxInFlight
  /\ Send(Request("login", ""))
  /\ Dispatch(thunk_pending(St))
  /\ UNCHANGED <<location, ended>>

\* authSlice.ts:47-55 and the fulfilled case of the slice
LoginFulfilled(p) ==
  /\ Request("login", "") \in BagToSet(pending)
  /\ Receive(Request("login", ""))
  /\ Dispatch(login_fulfilled(St, p))
  /\ ended' = "none"
  /\ UNCHANGED <<location>>

\* authSlice.ts:56-62 and the rejected case of the slice
LoginRejected(msg) ==
  /\ Request("login", "") \in BagToSet(pending)
  /\ Receive(Request("login", ""))
  /\ Dispatch(login_rejected(St, msg))
  /\ UNCHANGED <<location, ended>>

\* App.tsx:601-612; the submit button is disabled while loading (App.tsx:919)
\* and the form is on screen only without a token (App.tsx:545-568)
handleRegSubmit ==
  /\ ~Truthy(auth.token)
  /\ ~auth.loading
  /\ InFlight < MaxInFlight
  /\ Send(Request("register", ""))
  /\ Dispatch(thunk_pending(St))
  /\ UNCHANGED <<location, ended>>

\* authSlice.ts:66-87 and the fulfilled case of the slice
RegisterFulfilled(p) ==
  /\ Request("register", "") \in BagToSet(pending)
  /\ Receive(Request("register", ""))
  /\ Dispatch(register_fulfilled(St, p))
  /\ ended' = "none"
  /\ UNCHANGED <<location>>

\* authSlice.ts:88-94 and the rejected case of the slice
RegisterRejected(msg) ==
  /\ Request("register", "") \in BagToSet(pending)
  /\ Receive(Request("register", ""))
  /\ Dispatch(register_rejected(St, msg))
  /\ UNCHANGED <<location, ended>>

\* ------------------------------------------------------- refreshUserData
\* authSlice.ts:102-108; its callers send it only with a token
\* (ShellLayout payment-redirect effect part_000:298, PricingPage effect)
RefreshUserDataDispatch ==
  /\ Truthy(auth.token)
  /\ InFlight < MaxInFlight
  /\ Send(Request("refreshUserData", auth.token.sub))
  /\ UNCHANGED <<auth, ls, wrapper, verifier, location, ended>>

\* the server answers with the record of the account the token was minted for
RefreshUserDataFulfilled(req, user) ==
  /\ req \in BagToSet(pending)
  /\ req.kind = "refreshUserData"
  /\ user \in ServerUsers(req.sub)
  /\ Receive(req)
  /\ Dispatch(refreshUserData_fulfilled(St, user))
  /\ UNCHANGED <<location, ended>>

\* authSlice.ts:109-112: the thunk rejects with the same value whatever the
\* status of the failure is, and no reducer handles the rejection
RefreshUserDataRejected(req, status) ==
  /\ req \in BagToSet(pending)
  /\ req.kind = "refreshUserData"
  /\ status \in FailureStatuses
  /\ Receive(req)
  /\ UNCHANGED <<auth, ls, wrapper, verifier, location, ended>>

\* --------------------------------------------------------- deleteAccount
\* authSlice.ts:135-141; the answer does not depend on the token sent
DeleteAccountDispatch ==
  /\ Truthy(auth.token)
  /\ InFlight < MaxInFlight
  /\ Send(Request("deleteAccount", ""))
  /\ Dispatch(thunk_pending(St))
  /\ UNCHANGED <<location, ended>>

DeleteAccountFulfilled ==
  /\ Request("deleteAccount", "") \in BagToSet(pending)
  /\ Receive(Request("deleteAccount", ""))
  /\ Dispatch(deleteAccount_fulfilled(St))
  /\ ended' = "deleteAccount"
  /\ UNCHANGED <<location>>

\* authSlice.ts:142-148, 274-277: the status of the failure is not looked at
DeleteAccountRejected(msg, status) ==
  /\ Request("deleteAccount", "") \in BagToSet(pending)
  /\ status \in FailureStatuses
  /\ Receive(Request("deleteAccount", ""))
  /\ Dispatch(deleteAccount_rejected(St, msg))
  /\ UNCHANGED <<location, ended>>

\* ------------------------------------------------- ShellLayout: sign out
\* part_000:865-868, shown only while logged in (part_000:731)
SignOutClick ==
  /\ Truthy(auth.token)
  /\ Dispatch(logout(St))
  /\ location' = Url("/")
  /\ ended' = "logout"
  /\ UNCHANGED <<pending>>

\* ---------------------------------------------------- PricingPage: plan
\* PricingPage.tsx:31-36, behind PrivateRoute (App.tsx:29-38)
UpdatePlanDispatch ==
  /\ Truthy(auth.token)
  /\ Dispatch(updatePlan(St, "pro"))
  /\ UNCHANGED <<pending, location, ended>>

\* ------------------------------------------- JobsAppWrapper: mounting
\* JobsAppWrapper.tsx:50-54: a new instance starts with verifyRan.current =
\* false and runs its effects at once.  In React StrictMode (strict) the
\* effects are then cleaned up and run a second time, with the refs kept.
\* The model follows one verifyToken coroutine at a time: an instance mounts
\* when the coroutine of the previous instance has returned.
MountWrapper(strict) ==
  /\ ~wrapper.mounted
  /\ verifier.pc \in {"none", "done"}
  /\ LET w0 == [NoWrapper EXCEPT !.mounted = TRUE]
         r1 == verifyEffect(w0, NoVerifier, auth)
         r2 == IF strict THEN verifyEffect(r1.w, r1.v, auth) ELSE r1
     IN /\ wrapper' = renderWrapper(r2.w, auth)
        /\ verifier' = r2.v
  /\ UNCHANGED <<auth, ls, pending, location, ended>>

\* the instance unmounts; nothing stops its coroutine (JobsAppWrapper.tsx:61-104
\* returns no cleanup)
UnmountWrapper ==
  /\ wrapper.mounted
  /\ wrapper' = [wrapper EXCEPT !.mounted = FALSE, !.hasError = FALSE, !.props = NoProps]
  /\ UNCHANGED <<auth, ls, pending, verifier, location, ended>>

ModuleFails_DropsSession ==
  /\ wrapper.mounted
  /\ ~wrapper.hasError
  /\ auth' = logout(St).auth
  /\ ls' = logout(St).ls
  /\ wrapper' = renderWrapper([wrapper EXCEPT !.hasError = TRUE], auth)
  /\ UNCHANGED <<pending, verifier, location, ended>>

\* JobsAppWrapper.tsx:15-48: loading or rendering the hosted module throws
\* and the ErrorBoundary of the mounted wrapper catches it
\* (getDerivedStateFromError); the wrapper itself stays mounted
ModuleFails ==
  /\ wrapper.mounted
  /\ ~wrapper.hasError
  /\ wrapper' = renderWrapper([wrapper EXCEPT !.hasError = TRUE], auth)
  /\ UNCHANGED <<auth, ls, pending, verifier, location, ended>>

\* ------------------------------------------- JobsAppWrapper: verifyToken
\* the coroutine has returned: its closure is released
Finished(v) ==
  [pc |-> "done", refresh |-> Null, user_type |-> NullStr,
   verifySent |-> v.verifySent, refreshSent |-> v.refreshSent]

\* JobsAppWrapper.tsx:88-97
Expire ==
  LET expiredType == ExpiredType(verifier.user_type)
  IN /\ DispatchWith(expireSession(St, expiredType), Finished(verifier))
     /\ location' = Url(ExpiredRedirect(expiredType))
     /\ ended' = "expireSession"

\* JobsAppWrapper.tsx:69-100: the answer to the verify request
VerifyResponse(status) ==
  /\ verifier.pc = "verify"
  /\ IF status = 200
     THEN /\ verifier' = Finished(verifier)
          /\ UNCHANGED <<auth, ls, wrapper, location, ended>>
     ELSE IF IsAuthError(status)
     THEN IF Truthy(verifier.refresh)
          THEN /\ verifier' = [verifier EXCEPT !.pc = "refresh", !.refreshSent = @ + 1]
               /\ UNCHANGED <<auth, ls, wrapper, location, ended>>
          ELSE Expire
     ELSE /\ verifier' = Finished(verifier)
          /\ UNCHANGED <<auth, ls, wrapper, location, ended>>
  /\ UNCHANGED <<pending>>

\* authSlice.ts:121-128, 256-259 and JobsAppWrapper.tsx:81-83: the server
\* mints an access token for the account of the refresh token
RefreshFulfilled(access) ==
  /\ verifier.pc = "refresh"
  /\ access.sub = verifier.refresh.sub
  /\ DispatchWith(refreshAuthToken_fulfilled(St, access), Finished(verifier))
  /\ UNCHANGED <<pending, location, ended>>

\* authSlice.ts:129-131 and JobsAppWrapper.tsx:84-97: every failure of the
\* refresh request is rejected with the same value
RefreshRejected(status) ==
  /\ verifier.pc = "refresh"
  /\ status \in FailureStatuses
  /\ Expire
  /\ UNCHANGED <<pending>>

\* ------------------------------------------------------------------- Next
Next ==
  \/ LoadPage
  \/ \E q \in OAuthQueries : OAuthLanding(q)
  \/ handleLoginSubmit
  \/ \E p \in LoginPayloads : LoginFulfilled(p)
  \/ \E msg \in ErrorMessages : LoginRejected(msg)
  \/ handleRegSubmit
  \/ \E p \in RegisterPayloads : RegisterFulfilled(p)
  \/ \E msg \in ErrorMessages : RegisterRejected(msg)
  \/ RefreshUserDataDispatch
  \/ \E req \in BagToSet(pending) : \E u \in UNION {ServerUsers(a) : a \in Accounts} :
       RefreshUserDataFulfilled(req, u)
  \/ \E req \in BagToSet(pending) : \E s \in FailureStatuses :
       RefreshUserDataRejected(req, s)
  \/ DeleteAccountDispatch
  \/ DeleteAccountFulfilled
  \/ \E msg \in ErrorMessages : \E s \in FailureStatuses : DeleteAccountRejected(msg, s)
  \/ SignOutClick
  \/ UpdatePlanDispatch
  \/ \E strict \in BOOLEAN : MountWrapper(strict)
  \/ UnmountWrapper
  \/ \E s \in {200} \cup FailureStatuses : VerifyResponse(s)
  \/ \E t \in RefreshedTokens : RefreshFulfilled(t)
  \/ \E s \in FailureStatuses : RefreshRejected(s)

\* the session lifecycle, whatever the modals show
Spec == Init /\ [][Next /\ UNCHANGED ui]_vars

\* ================================================================= modals
postAuthEffect_PromptsAlways(m, a) ==
  IF Truthy(a.token) /\ m.open /\ ~m.showUpgrade
  THEN IF a.user # NoUser /\ a.user.user_type = "candidate"
            /\ ~a.user.has_purchased_visibility
       THEN [modal |-> [m EXCEPT !.open = FALSE],
             msgs |-> <<Message("matchdb:openPricing", "candidate", TRUE)>>]
       ELSE [modal |-> [m EXCEPT !.showUpgrade = TRUE], msgs |-> <<>>]
  ELSE [modal |-> m, msgs |-> <<>>]

\* App.tsx:545-568: the post-auth effect of LoginModal in a render that
\* shows the modal state m and the slice state a; the result is the modal
\* state it leaves and the messages it publishes
postAuthEffect(m, a) ==
  IF Truthy(a.token) /\ m.open /\ ~m.showUpgrade
  THEN IF a.user # NoUser /\ a.user.user_type = "candidate"
       THEN IF ~a.user.has_purchased_visibility
            THEN [modal |-> [m EXCEPT !.open = FALSE],
                  msgs |-> <<Message("matchdb:openPricing", "candidate", TRUE)>>]
            ELSE [modal |-> [m EXCEPT !.open = FALSE], msgs |-> <<>>]
       ELSE IF a.user # NoUser /\ a.user.plan = "free"
            THEN [modal |-> [m EXCEPT !.showUpgrade = TRUE], msgs |-> <<>>]
            ELSE [modal |-> [m EXCEPT !.open = FALSE], msgs |-> <<>>]
  ELSE [modal |-> m, msgs |-> <<>>]

\* part_000:256-262
handleOpenPricing_NoChain(sh, msg) ==
  [sh EXCEPT !.pricingModalTab = IF msg.tab = "candidate" THEN "candidate" ELSE "vendor",
             !.pricingModalOpen = TRUE]

handleOpenPricing(sh, msg) ==
  [sh EXCEPT !.pricingModalTab = IF msg.tab = "candidate" THEN "candidate" ELSE "vendor",
             !.pendingProfileOpen = IF msg.triggerProfile THEN TRUE ELSE @,
             !.pricingModalOpen = TRUE]

\* part_000:276-280: ShellLayout listens to matchdb:openPricing; the
\* messages msgs are delivered in the order they were published
RECURSIVE Deliver(_, _)
Deliver(sh, msgs) ==
  IF msgs = <<>> THEN sh
  ELSE Deliver(IF Head(msgs).type = "matchdb:openPricing" /\ Registered(Head(msgs).type)
               THEN handleOpenPricing(sh, Head(msgs)) ELSE sh,
               Tail(msgs))

paymentRedirectEffect_NoChain(sh, a, loc) ==
  IF loc.payment \in PaymentMarkers
  THEN LET isCandSucc == loc.payment = "candidate_success"
           tab == IF isCandSucc THEN "candidate"
                  ELSE IF a.user.user_type = "candidate" THEN "candidate" ELSE "vendor"
       IN [shell |-> [sh EXCEPT !.pricingModalTab = tab, !.pricingModalOpen = TRUE],
           location |-> Url(loc.path),
           refresh |-> isCandSucc /\ Truthy(a.token)]
  ELSE [shell |-> sh, location |-> loc, refresh |-> FALSE]

\* part_000:283-305: the payment-redirect effect of ShellLayout with the
\* shell state sh, the slice state a and the location loc; the result is
\* the shell state and the location it leaves and whether it dispatches
\* refreshUserData
paymentRedirectEffect(sh, a, loc) ==
  IF loc.payment \in PaymentMarkers
  THEN LET isCandSucc == loc.payment = "candidate_success"
           tab == IF isCandSucc THEN "candidate"
                  ELSE IF a.user.user_type = "candidate" THEN "candidate" ELSE "vendor"
       IN [shell |-> [sh EXCEPT !.pricingModalTab = tab,
                                !.pendingProfileOpen = IF isCandSucc THEN TRUE ELSE @,
                                !.pricingModalOpen = TRUE],
           location |-> Url(loc.path),
           refresh |-> isCandSucc /\ Truthy(a.token)]
  ELSE [shell |-> sh, location |-> loc, refresh |-> FALSE]

\* part_000:305: the dependency of the payment-redirect effect; it runs
\* again in a render whose user?.user_type differs from the last one
paymentEffectDeps(a) == a.user.user_type

\* part_004:391-402: the tab a PricingPage starts on
defaultTab(a, initialTab) ==
  IF a.user.user_type = "vendor" THEN 0
  ELSE IF a.user.user_type = "candidate" THEN 1
  ELSE IF initialTab = "vendor" THEN 0
  ELSE IF initialTab = "candidate" THEN 1
  ELSE 0

\* part_004:424-459: PricingPage mounts in the plan-purchase modal of the
\* shell state sh and its effect reads the location loc; the result is the
\* shell state with the page in it, the location the effect leaves and
\* the number of refreshUserData it dispatches
pricingPageMount(sh, a, loc) ==
  LET tab0 == defaultTab(a, sh.pricingModalTab)
  IN IF loc.payment = "success"
     THEN [shell |-> [sh EXCEPT !.activeTab = tab0, !.message = "success"],
           location |-> Url(loc.path),
           refreshes |-> IF Truthy(a.token) THEN 1 ELSE 0]
     ELSE IF loc.payment = "candidate_success"
     THEN [shell |-> [sh EXCEPT !.activeTab = 1, !.message = "success"],
           location |-> Url(loc.path),
           refreshes |-> IF Truthy(a.token) THEN 1 ELSE 0]
     ELSE IF loc.payment = "canceled"
     THEN [shell |-> [sh EXCEPT !.activeTab = tab0, !.message = "error"],
           location |-> Url(loc.path),
           refreshes |-> 0]
     ELSE [shell |-> [sh EXCEPT !.activeTab = tab0, !.message = NullStr],
           location |-> loc,
           refreshes |-> 0]

\* part_000:1283, 1363-1366: the render of the shell state sh; PricingPage
\* is mounted while the plan-purchase modal is open, wasOpen tells whether
\* the render before showed it
renderPricing(wasOpen, sh, a, loc) ==
  IF ~sh.pricingModalOpen THEN [sh EXCEPT !.activeTab = 0, !.message = NullStr]
  ELSE IF wasOpen THEN sh
  ELSE pricingPageMount(sh, a, loc).shell

\* A handler has left the modal state m, the shell state sh and the slice
\* state a and has published out: React renders, the post-auth effect runs
\* and its messages are delivered. The location of a mounted shell carries
\* no payment marker, the mount has removed it, so the effects that read
\* it leave the location alone and dispatch nothing.
View(m, sh, a, out) ==
  LET r == postAuthEffect(m, a)
      d == Deliver(sh, out \o r.msgs)
      e == IF paymentEffectDeps(a) # paymentEffectDeps(auth)
           THEN paymentRedirectEffect(d, a, location').shell
           ELSE d
  IN /\ modal' = r.modal
     /\ shell' = renderPricing(shell.pricingModalOpen, e, a, location')
     /\ published' = out \o r.msgs

\* runs of the payment-redirect effect the model counts
MaxReads == 2

\* the render after a handler of the mounted shell
Commit(m, sh, a, out) ==
  /\ View(m, sh, a, out)
  /\ urlReads' = IF paymentEffectDeps(a) # paymentEffectDeps(auth) /\ urlReads < MaxReads
                 THEN urlReads + 1 ELSE urlReads

\* a full page load with the modals in view
LoadPageShown ==
  /\ LoadPage
  /\ modal' = loginModalMount(Url("/")).modal
  /\ shell' = paymentRedirectEffect(NoShell, auth', Url("/")).shell
  /\ published' = <<>>
  /\ urlReads' = 1

\* The payment provider sends the browser back with a marker in the query
\* (part_000:282): a full page load; LoginModal and ShellLayout mount and
\* their effects run, then the render mounts PricingPage in the modal the
\* payment-redirect effect has opened.
PaymentReturn(marker) ==
  LET a == initialState(ls)
      m == loginModalMount(PaymentUrl(marker))
      e == paymentRedirectEffect(NoShell, a, m.location)
      g == IF e.shell.pricingModalOpen
           THEN pricingPageMount(e.shell, a, e.location)
           ELSE [shell |-> e.shell, location |-> e.location, refreshes |-> 0]
      sends == (IF e.refresh THEN 1 ELSE 0) + g.refreshes
      req == Request("refreshUserData", a.token.sub)
  IN /\ auth' = a
     /\ pending' = IF sends = 0 THEN EmptyBag ELSE [x \in {req} |-> sends]
     /\ wrapper' = NoWrapper
     /\ verifier' = NoVerifier
     /\ location' = g.location
     /\ modal' = postAuthEffect(m.modal, a).modal
     /\ shell' = g.shell
     /\ published' = <<>>
     /\ urlReads' = 1
     /\ UNCHANGED <<ls, ended>>

\* the OAuth redirect with the modals in view
OAuthLandingShown(q) ==
  /\ OAuthLanding(q)
  /\ View(ShellMount(oauthCallback([auth |-> initialState(ls), ls |-> ls], q).to).modal,
          NoShell, auth', <<>>)
  /\ urlReads' = 1

\* App.tsx:525-542: the hosted module publishes matchdb:openLogin
handleOpenModal(context, mode) ==
  /\ Registered("matchdb:openLogin")
  /\ Dispatch(clearError(St))
  /\ UNCHANGED <<pending, location, ended>>
  /\ Commit([open |-> TRUE, showUpgrade |-> FALSE, mode |-> mode, context |-> context,
             oauthError |-> NullStr], shell, auth', <<>>)

\* App.tsx:614-618: close button and overlay of the form
handleClose ==
  /\ modal.open /\ ~modal.showUpgrade
  /\ Dispatch(clearError(St))
  /\ UNCHANGED <<pending, location, ended>>
  /\ Commit([modal EXCEPT !.open = FALSE, !.oauthError = NullStr], shell, auth', <<>>)

handleUpgradeClose_GoesToPricing ==
  /\ modal.open /\ modal.showUpgrade
  /\ UNCHANGED <<auth, ls, pending, wrapper, verifier, location, ended>>
  /\ Commit([modal EXCEPT !.showUpgrade = FALSE, !.open = FALSE], shell, auth,
            <<Message("matchdb:openPricing", "vendor", FALSE)>>)

\* App.tsx:570-573: skip, close button and overlay of the upgrade prompt
handleUpgradeClose ==
  /\ modal.open /\ modal.showUpgrade
  /\ UNCHANGED <<auth, ls, pending, wrapper, verifier, location, ended>>
  /\ Commit([modal EXCEPT !.showUpgrade = FALSE, !.open = FALSE], shell, auth, <<>>)

\* App.tsx:575-584
handleGoToPricing ==
  /\ modal.open /\ modal.showUpgrade
  /\ UNCHANGED <<auth, ls, pending, wrapper, verifier, location, ended>>
  /\ LET isVendor == auth.user # NoUser /\ auth.user.user_type = "vendor"
     IN Commit([modal EXCEPT !.showUpgrade = FALSE, !.open = FALSE], shell, auth,
               <<Message("matchdb:openPricing",
                         IF isVendor THEN "vendor" ELSE "candidate", ~isVendor)>>)

\* the form of the open modal is submitted (App.tsx:596-599, 788)
SubmitLogin ==
  /\ modal.open /\ ~modal.showUpgrade /\ modal.mode = "login"
  /\ handleLoginSubmit
  /\ Commit(modal, shell, auth', <<>>)

\* (App.tsx:601-612, 919)
SubmitRegistration ==
  /\ modal.open /\ ~modal.showUpgrade /\ modal.mode = "register"
  /\ handleRegSubmit
  /\ Commit(modal, shell, auth', <<>>)

\* the answers of the server, with the modals in view
LoginFulfilledShown(p) == LoginFulfilled(p) /\ Commit(modal, shell, auth', <<>>)

LoginRejectedShown(msg) == LoginRejected(msg) /\ Commit(modal, shell, auth', <<>>)

RegisterFulfilledShown(p) == RegisterFulfilled(p) /\ Commit(modal, shell, auth', <<>>)

RegisterRejectedShown(msg) == RegisterRejected(msg) /\ Commit(modal, shell, auth', <<>>)

\* the sign-out button is reachable when no overlay covers the page
SignOutShown ==
  /\ ~modal.open /\ ~shell.pricingModalOpen
  /\ SignOutClick
  /\ Commit(modal, shell, auth', <<>>)

\* part_000:1211-1226: the "Upgrade to Post More" button, reachable when no
\* overlay covers the page
UpgradeButtonClick ==
  /\ Truthy(auth.token)
  /\ ~modal.open /\ ~shell.pricingModalOpen
  /\ UNCHANGED <<auth, ls, pending, wrapper, verifier, location, ended>>
  /\ Commit(modal, shell, auth,
            <<Message("matchdb:openPricing",
                      IF auth.user # NoUser /\ auth.user.user_type = "vendor"
                      THEN "vendor" ELSE "candidate", FALSE)>>)

\* pending timeouts of handleClosePricing the model follows
MaxTimers == 1

\* part_000:264-274: close button and overlay of the plan-purchase modal
handleClosePricing ==
  /\ shell.pricingModalOpen
  /\ shell.pendingProfileOpen => shell.timers < MaxTimers
  /\ UNCHANGED <<auth, ls, pending, wrapper, verifier, location, ended>>
  /\ Commit(modal,
            IF shell.pendingProfileOpen
            THEN [shell EXCEPT !.pricingModalOpen = FALSE, !.pendingProfileOpen = FALSE,
                               !.timers = @ + 1]
            ELSE [shell EXCEPT !.pricingModalOpen = FALSE],
            auth, <<Message("matchdb:pricingClosed", "", FALSE)>>)

\* part_000:1363-1366: the onClose callback handed to PricingPage
PricingPageOnClose ==
  /\ shell.pricingModalOpen
  /\ UNCHANGED <<auth, ls, pending, wrapper, verifier, location, ended>>
  /\ Commit(modal, [shell EXCEPT !.pricingModalOpen = FALSE], auth, <<>>)

\* part_000:270-272: a timeout of handleClosePricing expires
OpenProfileTimeout ==
  /\ shell.timers > 0
  /\ UNCHANGED <<auth, ls, pending, wrapper, verifier, location, ended>>
  /\ Commit(modal, [shell EXCEPT !.timers = @ - 1], auth,
            <<Message("matchdb:openProfile", "", FALSE)>>)

ModalNext ==
  \/ LoadPageShown
  \/ \E marker \in PaymentMarkers : PaymentReturn(marker)
  \/ \E q \in OAuthQueries : OAuthLandingShown(q)
  \/ \E c \in {"candidate", "vendor"} : \E m \in {"login", "register"} : handleOpenModal(c, m)
  \/ handleClose
  \/ handleUpgradeClose
  \/ handleGoToPricing
  \/ SubmitLogin
  \/ \E p \in LoginPayloads : LoginFulfilledShown(p)
  \/ \E msg \in ErrorMessages : LoginRejectedShown(msg)
  \/ SubmitRegistration
  \/ \E p \in RegisterPayloads : RegisterFulfilledShown(p)
  \/ \E msg \in ErrorMessages : RegisterRejectedShown(msg)
  \/ SignOutShown
  \/ UpgradeButtonClick
  \/ handleClosePricing
  \/ PricingPageOnClose
  \/ OpenProfileTimeout

\* the modals and the part of the session lifecycle that drives them
ModalSpec == Init /\ [][ModalNext /\ UNCHANGED <<quiet, app, listeners>>]_vars

\* ------------------------------------------- the loader and the modals
\* the steps of JobsAppWrapper with the modals in view
MountWrapperShown(strict) == MountWrapper(strict) /\ Commit(modal, shell, auth', <<>>)

UnmountWrapperShown == UnmountWrapper /\ Commit(modal, shell, auth', <<>>)

ModuleFailsShown == ModuleFails /\ Commit(modal, shell, auth', <<>>)

VerifyResponseShown(status) == VerifyResponse(status) /\ Commit(modal, shell, auth', <<>>)

RefreshFulfilledShown(access) == RefreshFulfilled(access) /\ Commit(modal, shell, auth', <<>>)

RefreshRejectedShown(status) == RefreshRejected(status) /\ Commit(modal, shell, auth', <<>>)

\* the loader, the login through the modal and the modals it leads to
LoaderNext ==
  \/ LoadPageShown
  \/ \E c \in {"candidate", "vendor"} : handleOpenModal(c, "login")
  \/ handleClose
  \/ handleUpgradeClose
  \/ SubmitLogin
  \/ \E p \in LoginPayloads : LoginFulfilledShown(p)
  \/ \E msg \in ErrorMessages : LoginRejectedShown(msg)
  \/ SignOutShown
  \/ handleClosePricing
  \/ OpenProfileTimeout
  \/ \E strict \in BOOLEAN : MountWrapperShown(strict)
  \/ UnmountWrapperShown
  \/ ModuleFailsShown
  \/ \E status \in {200} \cup FailureStatuses : VerifyResponseShown(status)
  \/ \E t \in RefreshedTokens : RefreshFulfilledShown(t)
  \/ \E status \in FailureStatuses : RefreshRejectedShown(status)

LoaderSpec == Init /\ [][LoaderNext /\ UNCHANGED <<quiet, app, listeners>>]_vars

\* ----------------------------------------------------- sub-navigation
\* part_000:213: the lists of sub-navigation groups the hosted module sends
SubNavGroupLists == {<<>>, <<"Jobs">>}

\* the detail of a matchdb:subnav message: the object { groups: G } of the
\* events table (README.md:94), the bare array G, or no detail at all
SubNavDetails ==
  {[kind |-> k, groups |-> g] : k \in {"object", "array"}, g \in SubNavGroupLists}
  \cup {[kind |-> "undefined", groups |-> <<>>]}

\* part_000:308-311: Array.isArray(detail) ? detail : []
handleSubNav(sh, detail) ==
  [sh EXCEPT !.subNavGroups = IF detail.kind = "array" THEN detail.groups ELSE <<>>]

\* part_000:318-319: the hosted module publishes matchdb:subnav and the
\* listener of the mounted ShellLayout takes it
SubNavPublished(detail) ==
  /\ Registered("matchdb:subnav")
  /\ UNCHANGED <<auth, ls, pending, wrapper, verifier, location, ended>>
  /\ Commit(modal, handleSubNav(shell, detail), auth, <<>>)

\* ------------------------------------------------------ subscriptions
\* instances of App the model follows in one window
MaxInstances == 2

\* React unmounts App: the cleanups of the effects of LoginModal and
\* ShellLayout run (App.tsx:541, part_000:278-279, 326-330, 472-475) and
\* the state of the components is gone; the timeouts of handleClosePricing
\* are not cleared (part_000:270-272) and the coroutine of JobsAppWrapper
\* goes on
AppUnmount ==
  /\ app.mounted
  /\ app' = [app EXCEPT !.mounted = FALSE]
  /\ listeners' = unsubscribe(listeners, app.inst)
  /\ wrapper' = [wrapper EXCEPT !.mounted = FALSE, !.hasError = FALSE, !.props = NoProps]
  /\ modal' = NoModal
  /\ shell' = [NoShell EXCEPT !.timers = shell.timers]
  /\ published' = <<>>
  /\ urlReads' = 0
  /\ UNCHANGED <<auth, ls, pending, verifier, location, ended, quiet>>

\* React mounts App again in the same window: a new instance of each
\* component, whose effects run; strict tells whether React runs them,
\* their cleanups and them again (JobsAppWrapper.tsx:64)
AppMount(strict) ==
  /\ ~app.mounted
  /\ app.inst < MaxInstances
  /\ LET inst == app.inst + 1
         m == loginModalMount(location)
         e == paymentRedirectEffect([NoShell EXCEPT !.timers = shell.timers], auth, m.location)
     IN /\ app' = [mounted |-> TRUE, inst |-> inst]
        /\ listeners' = IF strict
                        THEN subscribe(unsubscribe(subscribe(listeners, inst), inst), inst)
                        ELSE subscribe(listeners, inst)
        /\ location' = e.location
        /\ modal' = postAuthEffect(m.modal, auth).modal
        /\ shell' = renderPricing(FALSE, e.shell, auth, e.location)
        /\ published' = postAuthEffect(m.modal, auth).msgs
        /\ urlReads' = 1
  /\ UNCHANGED <<auth, ls, pending, wrapper, verifier, ended, quiet>>

\* the hosted module publishes matchdb:openLogin (README.md:95) and no
\* handler is registered for it
OpenLoginUnheard(context) ==
  /\ ~Registered("matchdb:openLogin")
  /\ published' = <<Message("matchdb:openLogin", context, FALSE)>>
  /\ UNCHANGED <<auth, ls, pending, wrapper, verifier, location, ended, modal, shell,
                 urlReads, quiet, app, listeners>>

\* what happens while App is not mounted: a timeout expires, a message is
\* published
Offstage ==
  \/ OpenProfileTimeout
  \/ \E c \in {"candidate", "vendor"} : \E m \in {"login", "register"} : handleOpenModal(c, m)
  \/ \E c \in {"candidate", "vendor"} : OpenLoginUnheard(c)

ChannelNext ==
  \/ app.mounted /\ ModalNext /\ UNCHANGED <<quiet, app, listeners>>
  \/ /\ app.mounted
     /\ \E d \in SubNavDetails : SubNavPublished(d)
     /\ UNCHANGED <<quiet, app, listeners>>
  \/ ~app.mounted /\ Offstage /\ UNCHANGED <<quiet, app, listeners>>
  \/ AppUnmount
  \/ \E strict \in BOOLEAN : AppMount(strict)

ChannelSpec == Init /\ [][ChannelNext]_vars

\* ------------------------------------------------- closing what is open
\* from here on nothing opens a modal from outside
Settle ==
  /\ ~quiet
  /\ quiet' = TRUE
  /\ UNCHANGED <<auth, ls, pending, wrapper, verifier, location, ended, modal, shell,
                 published, urlReads, app, listeners>>

\* the close buttons and overlays (App.tsx:570-573, 614-618; part_000:264-274)
\* and the timer of handleClosePricing (part_000:270-272)
CloseNext ==
  \/ handleClose
  \/ handleUpgradeClose
  \/ handleClosePricing
  \/ OpenProfileTimeout

\* the answers to the requests that are still pending
AnswerNext ==
  \/ \E p \in LoginPayloads : LoginFulfilledShown(p)
  \/ \E msg \in ErrorMessages : LoginRejectedShown(msg)
  \/ \E p \in RegisterPayloads : RegisterFulfilledShown(p)
  \/ \E msg \in ErrorMessages : RegisterRejectedShown(msg)

ClosingNext ==
  \/ ~quiet /\ ModalNext /\ UNCHANGED <<quiet, app, listeners>>
  \/ Settle
  \/ quiet /\ CloseNext /\ UNCHANGED <<quiet, app, listeners>>
  \/ quiet /\ AnswerNext /\ UNCHANGED <<quiet, app, listeners>>

\* the user does close a modal that is open, a timer that is pending does
\* expire and a request that is pending is answered
ClosingSpec ==
  /\ Init
  /\ [][ClosingNext]_vars
  /\ WF_vars(quiet /\ CloseNext /\ UNCHANGED <<quiet, app, listeners>>)
  /\ WF_vars(quiet /\ AnswerNext /\ UNCHANGED <<quiet, app, listeners>>)

\* =================================================================== claims
\* C1: a verify request that fails with anything but 401 or 403 (network
\* error, timeout, 5xx, the proxy's 502) leaves the slice, the three
\* persisted keys and the location as they were and sends no refresh request.
C1_VerifyUnavailableKeepsSession ==
  [][\A s \in {ProxyUnavailable, NoResponse} :
       VerifyResponse(s)
       => /\ auth' = auth
          /\ ls' = ls
          /\ location' = location
          /\ verifier'.refreshSent = verifier.refreshSent
          /\ verifier'.pc = "done"]_vars

\* the verification has ended without a refresh request and the session
\* that was verified is still there
C1_Witness ==
  /\ verifier.pc = "done"
  /\ verifier.verifySent = 1
  /\ verifier.refreshSent = 0
  /\ auth.sessionExpiredUserType = NullStr
  /\ location = Url("/")
  /\ Truthy(auth.token) /\ Truthy(auth.refresh) /\ auth.user # NoUser
  /\ ls.matchdb_token = auth.token

\* the session is absent from the slice and from localStorage
SessionEmpty ==
  /\ auth.token = Null /\ auth.refresh = Null /\ auth.user = NoUser
  /\ ls = EmptyStorage

\* C2: when verify is rejected with 401 or 403 and the refresh request is
\* accepted, one refresh request has been sent, the access token in the
\* slice and under matchdb_token is the token the server has minted, the
\* refresh token and the user record are unchanged in the slice and in
\* localStorage, no expiry is recorded and the location does not change.
C2_SilentRefreshReplacesAccessTokenOnly ==
  [][\A t \in RefreshedTokens :
       RefreshFulfilled(t)
         => /\ verifier'.refreshSent = 1
            /\ auth'.token = t
            /\ ls'.matchdb_token = t
            /\ auth'.refresh = auth.refresh
            /\ auth'.user = auth.user
            /\ ls'.matchdb_refresh = ls.matchdb_refresh
            /\ ls'.matchdb_user = ls.matchdb_user
            /\ auth'.sessionExpiredUserType = auth.sessionExpiredUserType
            /\ location' = location]_vars

C2_Witness ==
  /\ verifier.pc = "done"
  /\ verifier.refreshSent = 1
  /\ auth.token = AccessToken("u1", 2)
  /\ ls.matchdb_token = AccessToken("u1", 2)
  /\ auth.refresh = RefreshToken("u1")
  /\ auth.user \in ServerUsers("u1")
  /\ auth.sessionExpiredUserType = NullStr

\* the verification gives the session up in this step: verify was rejected
\* with 401 or 403 and there is no refresh token, or the refresh was rejected
SessionGivenUp ==
  \/ \E s \in {401, 403} : VerifyResponse(s) /\ verifier'.pc = "done"
  \/ \E s \in FailureStatuses : RefreshRejected(s)

\* C3: when verify is rejected with 401 or 403 and the refresh is rejected
\* too, or there is no refresh token, the session is absent from the slice
\* and from localStorage, sessionExpiredUserType is the role of the user
\* whose session expires, and the location is the entry page of that role.
C3_ExpiryRecordsRoleOfExpiringUser ==
  [][(SessionGivenUp /\ auth.user # NoUser)
       => /\ SessionEmpty'
          /\ auth'.sessionExpiredUserType = auth.user.user_type
          /\ location' = Url(IF auth.user.user_type = "vendor"
                             THEN "/jobs/vendor" ELSE "/jobs/candidate")]_vars

\* C4: a refresh request that fails for a transport reason (no response,
\* the proxy's 502) does not end the session.
C4_RefreshUnavailableKeepsSession ==
  [][\A s \in {ProxyUnavailable, NoResponse} :
       RefreshRejected(s)
       => /\ auth' = auth
          /\ ls' = ls
          /\ location' = location]_vars

\* C5: an instance whose effect is run twice in immediate succession on
\* mount (React StrictMode) sends exactly one verify request.
C5_StrictModeSendsOneVerify ==
  [][(MountWrapper(TRUE) /\ Truthy(auth.token))
       => /\ verifier'.verifySent = 1
          /\ verifier'.pc = "verify"
          /\ wrapper'.verifyRan]_vars

C5_Witness ==
  /\ wrapper.mounted
  /\ wrapper.verifyRan
  /\ verifier.pc = "verify"
  /\ verifier.verifySent = 1
  /\ verifier.refresh = auth.refresh

\* C6: in every reachable state the user record is present exactly when the
\* access token is present, in the slice and in localStorage.
C6_UserIffToken ==
  /\ (auth.user # NoUser) <=> (auth.token # Null)
  /\ (ls.matchdb_user \notin {NoItem, <<"null">>}) <=> (ls.matchdb_token # Null)

\* C7: a sign-out of an established session leaves no access token, no
\* refresh token and no user record in the slice or in localStorage.
C7_LogoutEmptiesSession ==
  [][SignOutClick => SessionEmpty']_vars

C7_Witness ==
  /\ ended = "logout"
  /\ SessionEmpty
  /\ pending = EmptyBag
  /\ location = Url("/")

\* C8: after logout or expireSession the session stays absent from the
\* slice and from localStorage until the next successful login,
\* registration or OAuth hydration, whatever request completes meanwhile.
C8_EndedSessionStaysEmpty ==
  ended \in {"logout", "expireSession"} => SessionEmpty

SessionIs(a, store, p) ==
  /\ a.token = p.access /\ a.refresh = p.refresh /\ a.user = p.user
  /\ store.matchdb_token = p.access
  /\ store.matchdb_refresh = p.refresh
  /\ store.matchdb_user = Stringify(p.user)

\* C10: a successful login, registration or OAuth hydration replaces the
\* access token, the refresh token and the user record together, in the
\* slice and in localStorage, by those of the one response, in one step.
C10_SignInReplacesSessionTogether ==
  [][/\ pending' # pending
          => /\ \A p \in LoginPayloads : LoginFulfilled(p) => SessionIs(auth', ls', p)
             /\ \A p \in RegisterPayloads :
                  RegisterFulfilled(p) => SessionIs(auth', ls', p)
     /\ (location' = Url("/") /\ wrapper' = NoWrapper /\ ended' = "none")
          => \A q \in OAuthQueries :
               OAuthLanding(q)
                 => SessionIs(auth', ls', [access |-> q.token,
                                           refresh |-> IF Truthy(q.refresh) THEN q.refresh
                                                       ELSE EmptyStr,
                                           user |-> Parse(q.user)])]_vars

\* a session of account u2 has replaced the session of account u1 that the
\* pending verification was started for
C10_Witness ==
  /\ ended = "none"
  /\ auth.token.sub = "u2"
  /\ auth.refresh = RefreshToken("u2")
  /\ auth.user \in ServerUsers("u2")
  /\ ls.matchdb_token = auth.token
  /\ ls.matchdb_refresh = auth.refresh
  /\ ls.matchdb_user = Stringify(auth.user)
  /\ verifier.pc = "verify"
  /\ verifier.refresh = RefreshToken("u1")

\* the verification path takes the failure up in this step: a refresh
\* request is sent or the session is expired
Escalated ==
  \/ verifier'.refreshSent > verifier.refreshSent
  \/ /\ auth'.sessionExpiredUserType # NullStr
     /\ auth'.token = Null
     /\ ended' = "expireSession"

\* C11: every 401 or 403 answer to a request that carries the access token
\* (verify, refreshUserData, deleteAccount) leads to a refresh request or to
\* the expiry of the session.
C11_AuthFailureEscalated ==
  [][\A s \in {401, 403} :
       \/ VerifyResponse(s)
       \/ \E req \in BagToSet(pending) : RefreshUserDataRejected(req, s)
       \/ \E msg \in ErrorMessages : DeleteAccountRejected(msg, s)
       => Escalated]_vars

\* C12: at most one of the requests that change credentials (login,
\* register, refresh) is in flight at a time.
CredentialRequests ==
  CopiesIn(Request("login", ""), pending) + CopiesIn(Request("register", ""), pending)
    + (IF verifier.pc = "refresh" THEN 1 ELSE 0)

C12_OneCredentialRequest == CredentialRequests <= 1

\* C13: the answer to a verify request that arrives after JobsAppWrapper has
\* unmounted sends no refresh request, expires no session and redirects
\* nowhere.
C13_UnmountedVerifyIgnored ==
  [][\A s \in {200} \cup FailureStatuses :
       (VerifyResponse(s) /\ ~wrapper.mounted)
         => /\ auth' = auth
            /\ ls' = ls
            /\ location' = location
            /\ verifier'.refreshSent = verifier.refreshSent]_vars

\* C15: an OAuth hydration that succeeds leaves a session with a non-empty
\* access token, a non-empty refresh token and a user record, in the slice
\* and in localStorage.
C15_OAuthSessionComplete ==
  [][\A q \in OAuthQueries :
       (OAuthLanding(q) /\ location' = Url("/"))
         => /\ Truthy(auth'.token) /\ Truthy(auth'.refresh) /\ auth'.user # NoUser
            /\ Truthy(ls'.matchdb_token) /\ Truthy(ls'.matchdb_refresh)
            /\ ls'.matchdb_user \notin {NoItem, <<"null">>}]_vars

\* C14: an OAuth redirect that carries an error, lacks the token or the
\* user payload, or carries a user payload that does not parse writes no
\* session, leaves no access token, refresh token or user record, and
\* leaves the authentication modal open with an error message.
C14_OAuthErrorAnonymousAndShown ==
  [][\A q \in OAuthQueries :
       (OAuthLandingShown(q) /\ location'.path = "/login")
         => /\ ls' = ls
            /\ auth'.token = Null /\ auth'.refresh = Null /\ auth'.user = NoUser
            /\ modal'.open /\ ~modal'.showUpgrade
            /\ modal'.oauthError # NullStr]_vars

AuthenticatedInModal(p) ==
  /\ modal.open /\ ~modal.showUpgrade
  /\ LoginFulfilledShown(p) \/ RegisterFulfilledShown(p)

\* C17: when login or registration succeeds with the authentication modal
\* open and the user is a candidate without purchased visibility, the modal
\* closes, the upgrade prompt is not shown, and exactly one open-pricing
\* message is published, with tab candidate and the chain flag, which
\* opens the plan-purchase modal on the candidate tab with the chain armed.
C17_CandidateWithoutVisibilityGoesToPricing ==
  [][pending' # pending
       => \A p \in LoginPayloads \cup RegisterPayloads :
            (AuthenticatedInModal(p) /\ p.user.user_type = "candidate"
               /\ ~p.user.has_purchased_visibility)
              => /\ ~modal'.open /\ ~modal'.showUpgrade
                 /\ published' = <<Message("matchdb:openPricing", "candidate", TRUE)>>
                 /\ shell'.pricingModalOpen
                 /\ shell'.pricingModalTab = "candidate"
                 /\ shell'.pendingProfileOpen]_vars

C17_Witness ==
  /\ auth.user = User("u1", "free", FALSE)
  /\ Truthy(auth.token)
  /\ ~modal.open
  /\ published = <<Message("matchdb:openPricing", "candidate", TRUE)>>
  /\ shell.pricingModalOpen /\ shell.pricingModalTab = "candidate"
  /\ shell.pendingProfileOpen

\* C18: when authentication succeeds with the authentication modal open and
\* the user is a vendor on the free plan, the upgrade prompt replaces the
\* form; the skip action closes the prompt and the modal, publishes no
\* message, leaves the plan-purchase modal as it is and leaves the session
\* unchanged.
C18_FreeVendorPromptAndSkip ==
  [][/\ pending' # pending
          => \A p \in LoginPayloads \cup RegisterPayloads :
               (AuthenticatedInModal(p) /\ p.user.user_type = "vendor"
                  /\ p.user.plan = "free")
                 => /\ modal'.open /\ modal'.showUpgrade
                    /\ published' = <<>>
                    /\ shell' = shell
     /\ handleUpgradeClose
          => /\ ~modal'.open /\ ~modal'.showUpgrade
             /\ published' = <<>>
             /\ shell' = shell
             /\ auth' = auth /\ ls' = ls]_vars

C18_Witness ==
  /\ auth.user = User("u2", "free", FALSE)
  /\ Truthy(auth.token)
  /\ modal.open /\ modal.showUpgrade
  /\ ~shell.pricingModalOpen
  /\ published = <<>>

\* C19: when authentication succeeds with the authentication modal open and
\* the user is a candidate with purchased visibility or a vendor on a paid
\* plan, the modal closes, neither the plan-purchase modal nor the upgrade
\* prompt opens and no message is published.
C19_PaidUserJustCloses ==
  [][pending' # pending
       => \A p \in LoginPayloads \cup RegisterPayloads :
            (AuthenticatedInModal(p)
               /\ \/ p.user.user_type = "candidate" /\ p.user.has_purchased_visibility
                  \/ p.user.user_type = "vendor" /\ p.user.plan # "free")
              => /\ ~modal'.open /\ ~modal'.showUpgrade
                 /\ published' = <<>>
                 /\ shell' = shell]_vars

C19_Witness ==
  /\ auth.user = User("u2", "pro", FALSE)
  /\ Truthy(auth.token)
  /\ ~auth.loading
  /\ ~modal.open /\ ~modal.showUpgrade
  /\ ~shell.pricingModalOpen
  /\ published = <<>>
  /\ pending = EmptyBag

\* an open-profile message is among the messages msgs
HasOpenProfile(msgs) == \E i \in 1..Len(msgs) : msgs[i].type = "matchdb:openProfile"

\* C20: the plan-purchase modal is closed at the moment an open-profile
\* message is published, in every interleaving of events and timers.
C20_ProfileOnlyAfterPricingClosed ==
  [][HasOpenProfile(published') => ~shell.pricingModalOpen /\ ~shell'.pricingModalOpen]_vars

C22_CandidateSuccessConfirmsAndChains ==
  [][(PaymentReturn("candidate_success") /\ Truthy(auth'.token))
       => /\ BagCardinality(pending') = 1
          /\ location'.payment = NullStr
          /\ shell'.pricingModalOpen
          /\ shell'.pricingModalTab = "candidate"
          /\ shell'.activeTab = 1
          /\ shell'.message = "success"
          /\ shell'.pendingProfileOpen]_vars

\* C23: the mounted ShellLayout reads the payment markers of the URL once;
\* no later change of the session makes its payment-redirect effect run
\* again.
C23_PaymentMarkersReadOnce == urlReads = 1

\* C24: in every reachable state at most one of the authentication modal
\* (form or upgrade prompt) and the plan-purchase modal is open, and no
\* open-profile message is published while either of them is open.
C24_AtMostOneModalOpen ==
  /\ ~(modal.open /\ shell.pricingModalOpen)
  /\ HasOpenProfile(published) => ~modal.open /\ ~shell.pricingModalOpen

\* C25: from every state of the modals and for every session state, an
\* open-login message leaves the authentication modal open on the form,
\* not on the upgrade prompt, for the requested role and mode.
C25_OpenLoginShowsForm ==
  [][\A c \in {"candidate", "vendor"} : \A m \in {"login", "register"} :
       handleOpenModal(c, m)
         => /\ modal'.open /\ ~modal'.showUpgrade
            /\ modal'.context = c /\ modal'.mode = m]_vars

\* no modal is open, the chain flag is clear and no timer is pending
Idle ==
  /\ ~modal.open
  /\ ~shell.pricingModalOpen
  /\ ~shell.pendingProfileOpen
  /\ shell.timers = 0

PageLoad ==
  \/ LoadPageShown
  \/ \E marker \in PaymentMarkers : PaymentReturn(marker)
  \/ \E q \in OAuthQueries : OAuthLandingShown(q)

\* C29 as stated: once the loader shows the error panel it leaves it by a
\* full page load only.
C29_ErrorPanelUntilReload ==
  [][(wrapper.hasError /\ ~wrapper'.hasError) => PageLoad]_vars

\* C29 as amended: a failure of the hosted module puts the loader into the
\* error panel and changes neither the session nor the modals; the panel
\* stays for as long as that JobsAppWrapper is mounted, and the shell goes
\* on handling its events.
C29_ErrorPanelWhileMounted ==
  [][/\ ModuleFailsShown
          => /\ wrapper'.hasError /\ wrapper'.mounted
             /\ auth' = auth /\ ls' = ls
             /\ modal' = modal /\ shell' = shell
     /\ (wrapper.hasError /\ ~wrapper'.hasError) => ~wrapper'.mounted]_vars

\* the error panel is showing and a modal has been opened since
C29_Witness ==
  /\ wrapper.mounted /\ wrapper.hasError
  /\ modal.open
  /\ Truthy(auth.token)

\* C30: whenever the hosted module is rendered, its props are those of the
\* current session: the access token, and the role, id, plan and purchase
\* flag of the user record, absent (the flag false) without a user record.
C30_PropsFollowSession ==
  (wrapper.mounted /\ ~wrapper.hasError)
    => /\ wrapper.props.token = auth.token
       /\ wrapper.props.userType = auth.user.user_type
       /\ wrapper.props.userId = auth.user.id
       /\ wrapper.props.plan = auth.user.plan
       /\ wrapper.props.hasPurchasedVisibility = auth.user.has_purchased_visibility
       /\ DOMAIN wrapper.props
            = {"token", "userType", "userId", "plan", "hasPurchasedVisibility"}

\* the module is rendered for a user whose session has changed since the mount
C30_Witness ==
  /\ wrapper.mounted
  /\ wrapper.props.token \in RefreshedTokens
  /\ wrapper.props.hasPurchasedVisibility

\* C28: while App is mounted, window holds exactly one registration for
\* each message type its components listen to, that of the mounted
\* instance, and none once it has unmounted; a message published after the
\* unmount reaches no handler and leaves the disposed components alone.
C28_OneRegistrationWhileMounted ==
  /\ \A t \in ListenedTypes :
       {l \in listeners : l.type = t}
         = IF app.mounted THEN {Registration(t, app.inst)} ELSE {}
  /\ ~app.mounted => modal = NoModal /\ ~shell.pricingModalOpen

\* App has unmounted and a message published since has found no handler
C28_Witness ==
  /\ ~app.mounted
  /\ published = <<Message("matchdb:openLogin", "vendor", FALSE)>>
  /\ listeners = {}

\* C31: updatePlan(p) changes the plan field of the cached user record and
\* nothing else in the slice, and writes the changed record under
\* matchdb_user and nothing else in localStorage; when there is no user
\* record it changes nothing and writes nothing.
C31_UpdatePlanTouchesPlanOnly ==
  [][UpdatePlanDispatch
       => IF auth.user # NoUser
          THEN /\ auth' = [auth EXCEPT !.user = [auth.user EXCEPT !.plan = "pro"]]
               /\ ls' = [ls EXCEPT !.matchdb_user = Stringify(auth'.user)]
               /\ Parse(ls'.matchdb_user) = auth'.user
          ELSE auth' = auth /\ ls' = ls]_vars

\* a candidate, whom the server keeps on the free plan, holds the plan that
\* updatePlan has written, in the slice and in localStorage
C31_Witness ==
  /\ auth.user = User("u1", "pro", TRUE)
  /\ ls.matchdb_user = Stringify(User("u1", "pro", TRUE))
  /\ auth.token = AccessToken("u1", 1)
  /\ ls.matchdb_token = AccessToken("u1", 1)
  /\ auth.refresh = RefreshToken("u1")

\* C32: a successful refreshUserData puts the record the server has
\* returned, whole, in the place of the cached user record and of the one
\* under matchdb_user, and leaves the tokens in the slice and in
\* localStorage as they were; a failed refreshUserData changes neither the
\* slice nor localStorage.
C32_RefreshUserDataReplacesRecordOnly ==
  [][\A a \in Accounts :
       /\ \A u \in ServerUsers(a) :
            RefreshUserDataFulfilled(Request("refreshUserData", a), u)
              => /\ auth' = [auth EXCEPT !.user = u]
                 /\ ls' = [ls EXCEPT !.matchdb_user = Stringify(u)]
                 /\ Parse(ls'.matchdb_user) = u
       /\ \A s \in FailureStatuses :
            RefreshUserDataRejected(Request("refreshUserData", a), s)
              => auth' = auth /\ ls' = ls]_vars

\* the answer to a refreshUserData request has put a record in the slice
\* and in localStorage and has left the tokens, which a sign-out had
\* removed meanwhile, as they were
C32_Witness ==
  /\ ended = "logout"
  /\ auth.user \in ServerUsers("u2")
  /\ ls.matchdb_user = Stringify(auth.user)
  /\ auth.token = Null /\ auth.refresh = Null
  /\ ls.matchdb_token = Null /\ ls.matchdb_refresh = Null
  /\ pending = EmptyBag

\* C33: when the hosted module publishes matchdb:subnav with the detail
\* { groups: G } of the events table, the sub-navigation groups of the
\* shell become G.
C33_SubNavTakesDocumentedPayload ==
  [][\A G \in SubNavGroupLists :
       SubNavPublished([kind |-> "object", groups |-> G])
         => shell'.subNavGroups = G]_vars

\* C34: after every session action the three persisted keys hold the
\* access token, the refresh token and the user record of the slice:
\* building the initial state from localStorage, as a page reload does,
\* yields the same three values.
C34_StorageMirrorsSession ==
  LET reloaded == initialState(ls)
  IN /\ reloaded.token = auth.token
     /\ reloaded.refresh = auth.refresh
     /\ reloaded.user = auth.user

\* the tokens and the user record of the slice belong to one account
OneAccount ==
  /\ (Truthy(auth.token) /\ Truthy(auth.refresh)) => auth.token.sub = auth.refresh.sub
  /\ (Truthy(auth.token) /\ auth.user # NoUser) => auth.user.id = auth.token.sub

\* the verification in progress was started with the refresh token of
\* another account than the one of the current session
StaleVerification ==
  /\ verifier.pc \in {"verify", "refresh"}
  /\ Truthy(verifier.refresh)
  /\ Truthy(auth.token)
  /\ verifier.refresh.sub # auth.token.sub

\* the verification takes the answer to its verify or refresh request
VerificationStep ==
  \/ \E s \in {200} \cup FailureStatuses : VerifyResponse(s)
  \/ \E t \in RefreshedTokens : RefreshFulfilled(t)
  \/ \E s \in FailureStatuses : RefreshRejected(s)

\* C35: the access token, the refresh token and the user record of the
\* session always belong to one account, and a step of a verification that
\* was started for an earlier session neither replaces the access token of
\* the current session nor expires it.
C35_StaleVerificationLeavesSession ==
  /\ []OneAccount
  /\ [][(StaleVerification /\ VerificationStep)
          => /\ auth'.token = auth.token
             /\ auth'.sessionExpiredUserType = auth.sessionExpiredUserType]_vars

\* C36: whenever an access token is present, sessionExpiredUserType is
\* null: the remembered role exists only between an expiry and the next
\* successful login, registration or OAuth hydration.
C36_NoExpiredRoleInSession ==
  auth.token # Null => auth.sessionExpiredUserType = NullStr

ChainRequest ==
  \/ \E i \in 1..Len(published') :
       /\ published'[i].type = "matchdb:openPricing"
       /\ published'[i].triggerProfile
  \/ PaymentReturn("candidate_success")

\* C38: handleClosePricing starts the timer that publishes open-profile
\* exactly when the chain flag is set, and clears the flag; in every other
\* step of one mounted shell the flag is set by a chain request and
\* otherwise stays as it is, also when an open-pricing message without the
\* flag opens the modal again; a page load starts with the flag its
\* redirect asks for.
C38_ChainFlagFollowsRequests ==
  [][/\ handleClosePricing
          => /\ ~shell'.pendingProfileOpen
             /\ shell'.timers = shell.timers + (IF shell.pendingProfileOpen THEN 1 ELSE 0)
     /\ ~handleClosePricing
          => shell'.pendingProfileOpen
               = (ChainRequest \/ (~PageLoad /\ shell.pendingProfileOpen))]_vars

\* handleClosePricing has started the timer for a chain that was requested
\* on the candidate tab, after an open-pricing message without the flag
\* had put the modal on the vendor tab
C38_Witness ==
  /\ shell.timers = 1
  /\ ~shell.pendingProfileOpen
  /\ ~shell.pricingModalOpen
  /\ shell.pricingModalTab = "vendor"
  /\ published = <<Message("matchdb:pricingClosed", "", FALSE)>>

\* C39: a successful deleteAccount leaves no access token, no refresh
\* token and no user record in the slice and removes the three persisted
\* keys, as logout does; a failed deleteAccount sets the error message and
\* clears the loading flag and changes nothing else in the slice or in
\* localStorage.
C39_DeleteAccountClearsOrKeeps ==
  [][/\ DeleteAccountFulfilled
          => /\ SessionEmpty'
             /\ ls' = logout(St).ls
             /\ auth'.token = logout(St).auth.token
             /\ auth'.refresh = logout(St).auth.refresh
             /\ auth'.user = logout(St).auth.user
     /\ \A msg \in ErrorMessages : \A s \in FailureStatuses :
          DeleteAccountRejected(msg, s)
            => /\ auth' = [auth EXCEPT !.error = msg, !.loading = FALSE]
               /\ ls' = ls]_vars

\* the account of an established session has been deleted
C39_Witness ==
  /\ ended = "deleteAccount"
  /\ SessionEmpty
  /\ ~auth.loading
  /\ auth.error = NullStr
  /\ pending = EmptyBag
====
